---- MODULE Spec2Model ----
(***************************************************************************)
(* Model of timemanager/common.py: TimewithInf (time extended with the two *)
(* infinities), TimeRange (a half-open range [start, end)),                *)
(* DisjointTimeRanges (a consolidated list of TimeRange objects) and       *)
(* TimeSeries (a sorted dictionary keyed by time).                         *)
(*                                                                         *)
(* Encoding of the Python values:                                          *)
(*   an np.datetime64 instant is a positive integer (days after the       *)
(*   epoch), None is NoneV, np.datetime64(None) is NaT, the floats        *)
(*   np.inf / -np.inf are FloatInf / FloatNInf.                            *)
(***************************************************************************)
EXTENDS Integers, Sequences, FiniteSets, TLC

\* ----------------------------------------------------------------- bounds
MaxT == 4          \* instants are 1..MaxT
MaxLen == 3        \* longest list handed to DisjointTimeRanges(...)
MaxOtherLen == 2   \* longest list of the second operand
MaxValue == 2      \* values stored in a TimeSeries are 1..MaxValue
MaxKey == 3        \* keys stored in a TimeSeries are the instants 1..MaxKey
MaxItems == 2      \* longest list of pairs handed to TimeSeries(...)
MaxClock == 5      \* the wall clock runs over 0..MaxClock seconds
MaxD == 2          \* dtime_second is drawn from 0..MaxD

\* ------------------------------------------------------- encoded constants
NoneV == -1        \* Python None
NaT == -2          \* np.datetime64(None)
Epoch == 0         \* np.datetime64('1970-01-01'), the one falsy instant
FloatInf == 99     \* np.inf
FloatNInf == -99   \* -np.inf
ZeroDay == 2       \* the instant '2020-01-01' used by TimeRange.zero_range

Instants == 1..MaxT
\* the instants contains() is asked about: the epoch lies before every bound
Axis == Instants \cup {Epoch}
RawBounds == Instants \cup {NoneV}

\* Truth value of `x` for x None or an np.datetime64 instant.
Truthy(x) == x # NoneV /\ x # Epoch

\* ------------------------------------------------------------ TimewithInf
\* TimewithInf.__init__
TimewithInf(value) ==
    IF value = FloatInf
    THEN [is_inf |-> TRUE, is_ninf |-> FALSE, value |-> FloatInf]
    ELSE IF value = FloatNInf
    THEN [is_inf |-> FALSE, is_ninf |-> TRUE, value |-> FloatNInf]
    ELSE [is_inf |-> FALSE, is_ninf |-> FALSE,
          value |-> IF value = NoneV THEN NaT ELSE value]

\* type(self.value) is float exactly for the two infinities
IsFloat(x) == x.is_inf \/ x.is_ninf

\* np.datetime64 comparisons: every comparison with NaT is false
DtEq(u, v) == u # NaT /\ v # NaT /\ u = v
DtLt(u, v) == u # NaT /\ v # NaT /\ u < v

\* TimewithInf.time_or_none
time_or_none(x) == IF x.is_inf \/ x.is_ninf THEN NoneV ELSE x.value

\* TimewithInf.__eq__
TwiEq(x, y) ==
    IF IsFloat(x) = IsFloat(y)
    THEN IF IsFloat(x) THEN x.value = y.value ELSE DtEq(x.value, y.value)
    ELSE FALSE

\* TimewithInf.__lt__ without the inner test of other.is_ninf
TwiLt_NinfBelowAll(x, y) ==
    IF x.is_inf THEN FALSE
    ELSE IF x.is_ninf THEN TRUE
    ELSE IF y.is_ninf THEN FALSE
    ELSE IF y.is_inf THEN TRUE
    ELSE DtLt(x.value, y.value)

\* TimewithInf.__lt__
TwiLt(x, y) ==
    IF x.is_inf THEN FALSE
    ELSE IF x.is_ninf
         THEN (IF y.is_ninf THEN FALSE ELSE TRUE)
         ELSE IF y.is_ninf THEN FALSE
              ELSE IF y.is_inf THEN TRUE
              ELSE DtLt(x.value, y.value)

\* functools.total_ordering: the comparisons derived from __lt__ and __eq__
TwiLe(x, y) == TwiLt(x, y) \/ TwiEq(x, y)
TwiGt(x, y) == ~TwiLt(x, y) /\ ~TwiEq(x, y)
TwiGe(x, y) == ~TwiLt(x, y)

\* builtin max / min on two TimewithInf objects (the first wins a tie)
TwiMax(x, y) == IF TwiGt(y, x) THEN y ELSE x
TwiMin(x, y) == IF TwiLt(y, x) THEN y ELSE x

\* -------------------------------------------------------------- TimeRange
\* TimeRange.__init__ testing start == end instead of start >= end
RangeObj_EqualOnly(start, end, so, eo) ==
    [start |-> start, end |-> end, so |-> so, eo |-> eo,
     is_duration_zero |-> Truthy(start) /\ Truthy(end) /\ start = end,
     is_duration_inf |-> (start = NoneV) \/ (end = NoneV)]

\* the object TimeRange.__init__ leaves behind, given its four bound fields
RangeObj(start, end, so, eo) ==
    [start |-> start, end |-> end, so |-> so, eo |-> eo,
     is_duration_zero |-> Truthy(start) /\ Truthy(end) /\ start >= end,
     is_duration_inf |-> (start = NoneV) \/ (end = NoneV)]

\* TimeRange.__init__ with raw bounds (None or an instant)
TimeRange(start, end) ==
    RangeObj(start, end,
             TimewithInf(IF Truthy(start) THEN start ELSE FloatNInf),
             TimewithInf(IF Truthy(end) THEN end ELSE FloatInf))

\* TimeRange.__init__ with two TimewithInf bounds
TimeRangeOfObjs(so, eo) == RangeObj(time_or_none(so), time_or_none(eo), so, eo)

\* TimeRange.zero_range
TRZeroRange == TimeRange(ZeroDay, ZeroDay)

\* TimeRange.copy
TRCopy(r) == TimeRange(r.start, r.end)

\* TimeRange.__bool__
TRBool(r) == ~r.is_duration_zero

\* TimeRange.contains with a closed right end
TRContains_ClosedEnd(r, t) == TwiLe(r.so, TimewithInf(t)) /\ TwiGe(r.eo, TimewithInf(t))

\* TimeRange.contains, t a raw value (None or an instant)
TRContains(r, t) == TwiLe(r.so, TimewithInf(t)) /\ TwiGt(r.eo, TimewithInf(t))

\* TimeRange.overlaps testing other.contains(self.end)
TROverlaps_ByEnd(r, other) ==
    IF r.is_duration_zero \/ other.is_duration_zero
    THEN FALSE
    ELSE TRContains(r, other.start) \/ TRContains(other, r.end)

\* TimeRange.overlaps
TROverlaps(r, other) ==
    IF r.is_duration_zero \/ other.is_duration_zero
    THEN FALSE
    ELSE TRContains(r, other.start) \/ TRContains(other, r.start)

\* TimeRange.continuous
TRContinuous(r, other) == TwiEq(r.so, other.eo) \/ TwiEq(r.eo, other.so)

\* TimeRange.intersection
TRIntersection(r, other) ==
    TimeRangeOfObjs(TwiMax(r.so, other.so), TwiMin(r.eo, other.eo))

\* TimeRange.__eq__
TREq(r, other) == (r.start = other.start) /\ (r.end = other.end)

\* ----------------------------------------------------- values and dispatch
\* A Python object of one of the two classes; `ranges` is its `ranges`
\* attribute (a TimeRange carries the one-element list [self]).
TRVal(r) == [cls |-> "TimeRange", ranges |-> <<r>>]
DTRVal(rs) == [cls |-> "DisjointTimeRanges", ranges |-> rs]
Raised(e) == [cls |-> e, ranges |-> <<>>]
BoolVal(x) == [cls |-> IF x THEN "True" ELSE "False", ranges |-> <<>>]
NoVal == [cls |-> "None", ranges |-> <<>>]

IsTR(v) == v.cls = "TimeRange"
IsDTR(v) == v.cls = "DisjointTimeRanges"

\* ----------------------------------------------------- DisjointTimeRanges
\* the sort key (r._start_obj, r._end_obj): tuples compare by the first
\* component that is not ==
KeyLt(x, y) ==
    IF ~TwiEq(x.so, y.so) THEN TwiLt(x.so, y.so)
    ELSE IF ~TwiEq(x.eo, y.eo) THEN TwiLt(x.eo, y.eo)
    ELSE FALSE

\* stable insertion of r into a sorted list
RECURSIVE InsertSorted(_, _)
InsertSorted(r, rs) ==
    IF rs = <<>> THEN <<r>>
    ELSE IF KeyLt(r, Head(rs)) THEN <<r>> \o rs
    ELSE <<Head(rs)>> \o InsertSorted(r, Tail(rs))

\* list.sort(key=lambda r: (r._start_obj, r._end_obj)), a stable sort
RECURSIVE SortRanges(_)
SortRanges(rs) ==
    IF rs = <<>> THEN <<>>
    ELSE InsertSorted(rs[Len(rs)], SortRanges(SubSeq(rs, 1, Len(rs) - 1)))

\* the result of `self.ranges[i] |= self.ranges[i - 1]` when the two
\* overlap or are continuous: the spanning branch of TimeRange.union
Span(r, other) ==
    TimeRangeOfObjs(TwiMin(r.so, other.so), TwiMax(r.eo, other.eo))

\* the for loop of _consolidate_ranges from (1-based) index i on;
\* returns the list after the in-place merges and the parent indexes
RECURSIVE MergeScan(_, _, _)
MergeScan(rs, i, parent_idxs) ==
    IF i > Len(rs)
    THEN [list |-> rs, parent_idxs |-> Append(parent_idxs, Len(rs))]
    ELSE IF TROverlaps(rs[i - 1], rs[i]) \/ TRContinuous(rs[i - 1], rs[i])
    THEN MergeScan([rs EXCEPT ![i] = Span(rs[i], rs[i - 1])], i + 1, parent_idxs)
    ELSE MergeScan(rs, i + 1, Append(parent_idxs, i - 1))

\* [self.ranges[i] for i in parent_idxs if self.ranges[i]]
RECURSIVE KeepParents(_, _)
KeepParents(rs, parent_idxs) ==
    IF parent_idxs = <<>> THEN <<>>
    ELSE (IF TRBool(rs[Head(parent_idxs)]) THEN <<rs[Head(parent_idxs)]>> ELSE <<>>)
         \o KeepParents(rs, Tail(parent_idxs))

\* DisjointTimeRanges._consolidate_ranges on the list object rs:
\*   ranges - the list self.ranges is bound to afterwards
\*   list   - the contents of the list object rs afterwards (it is sorted
\*            and merged in place before self.ranges is rebound)
Consolidate(rs) ==
    IF Len(rs) = 0 THEN [ranges |-> rs, list |-> rs]
    ELSE LET scan == MergeScan(SortRanges(rs), 2, <<>>)
         IN [ranges |-> SortRanges(KeepParents(scan.list, scan.parent_idxs)),
             list |-> scan.list]

\* DisjointTimeRanges.__init__(ranges)
DTRInit(rs) == DTRVal(Consolidate(rs).ranges)

\* DisjointTimeRanges.__init__(None): all of time
DTRInitDefault == DTRInit(<<TimeRange(NoneV, NoneV)>>)

\* DisjointTimeRanges.zero_range
DTRZeroRange == DTRInit(<<>>)

\* DisjointTimeRanges.copy
DTRCopy(v) == DTRInit(v.ranges)

\* DisjointTimeRanges.contains
DTRContains(v, t) == \E i \in 1..Len(v.ranges) : TRContains(v.ranges[i], t)

\* TimeRange.union that merges the operands whatever their position
TRUnion_AlwaysSpan(r, other) == TRVal(Span(r, other))

\* TimeRange.union
TRUnion(r, other) ==
    IF TROverlaps(r, other) \/ TRContinuous(r, other)
    THEN TRVal(Span(r, other))
    ELSE DTRInit(<<r, other>>)

\* DisjointTimeRanges.union that does not consolidate the new list
DTRUnion_Unmerged(v, other) == DTRVal(Consolidate(v.ranges).ranges \o other.ranges)

\* DisjointTimeRanges.union, other a TimeRange or a DisjointTimeRanges
DTRUnion(v, other) ==
    DTRVal(Consolidate(
        DTRInit(Consolidate(v.ranges).ranges \o other.ranges).ranges).ranges)

\* x | y and x + y: TimeRange.__or__ / __add__, DisjointTimeRanges.__or__ /
\* __add__, and the reflected __ror__ / __radd__ when x is a TimeRange
Or(x, y) ==
    IF IsTR(x)
    THEN (IF IsTR(y) THEN TRUnion(x.ranges[1], y.ranges[1]) ELSE DTRUnion(y, x))
    ELSE DTRUnion(x, y)

\* sum(vals, start): the left fold of + over the list
RECURSIVE SumVals(_, _)
SumVals(vals, acc) ==
    IF vals = <<>> THEN acc ELSE SumVals(Tail(vals), Or(acc, Head(vals)))

\* DisjointTimeRanges.intersection with a TimeRange r
DTRIntersectionTR(v, r) ==
    SumVals([i \in 1..Len(v.ranges) |-> TRVal(TRIntersection(v.ranges[i], r))],
            TRVal(TRZeroRange))

\* DisjointTimeRanges.intersection, other a TimeRange or a DisjointTimeRanges
DTRIntersection(v, other) ==
    IF IsTR(other)
    THEN DTRIntersectionTR(v, other.ranges[1])
    ELSE SumVals([i \in 1..Len(other.ranges) |-> DTRIntersectionTR(v, other.ranges[i])],
                 TRVal(TRZeroRange))

\* x & y: TimeRange.__and__, DisjointTimeRanges.__and__ and __rand__
And(x, y) ==
    IF IsTR(x)
    THEN (IF IsTR(y) THEN TRVal(TRIntersection(x.ranges[1], y.ranges[1]))
          ELSE DTRIntersection(y, x))
    ELSE DTRIntersection(x, y)

\* ------------------------------------------------------------- to_array
\* An np.ndarray of datetime64 values: `items` are the instants, in order.
ArrayVal(items) == [cls |-> "ndarray", ranges |-> <<>>, items |-> items]
IsArray(v) == v.cls = "ndarray"

\* the unit tokens to_array accepts
np_time_units == {"Y", "M", "W", "D", "h", "m", "s", "us", "ns", "ps", "fs", "as"}

\* numpy counts weeks from the epoch, a Thursday: on the axis where ZeroDay
\* is '2020-01-01' (a Wednesday) the week grid falls on Thursday, Thursday
\* + WeekLen, ...
WeekLen == 7
Thursday == ZeroDay + 1

\* the length of one unit in days, for the units drawn here
UnitDays(unit) == IF unit = "W" THEN WeekLen ELSE 1

\* t.astype(f'datetime64[{unit}]') of a day-precision instant: a coarser
\* unit truncates t to the start of the unit it lies in
AsType(t, unit) ==
    IF unit = "W" THEN t - ((t - Thursday) % WeekLen) ELSE t

\* np.arange(time_start, time_stop, step)
Arange(time_start, time_stop, step) ==
    LET n == IF time_stop > time_start
             THEN (time_stop - time_start + step - 1) \div step ELSE 0
    IN [i \in 1..n |-> time_start + (i - 1) * step]

\* TimeRange.to_array that tests the unit before the bounds
TRToArray_UnitFirst(r, unit) ==
    IF unit \notin np_time_units THEN Raised("AssertionError")
    ELSE IF ~(Truthy(r.start) /\ Truthy(r.end)) THEN Raised("ValueError")
    ELSE ArrayVal(Arange(AsType(r.start, unit), AsType(r.end, unit), UnitDays(unit)))

\* TimeRange.to_array
TRToArray(r, unit) ==
    IF ~(Truthy(r.start) /\ Truthy(r.end)) THEN Raised("ValueError")
    ELSE IF unit \notin np_time_units THEN Raised("AssertionError")
    ELSE ArrayVal(Arange(AsType(r.start, unit), AsType(r.end, unit), UnitDays(unit)))

\* [r.to_array(unit) for r in self.ranges]: the list of arrays built so far
\* (acc), or the error of the first member whose to_array raises
RECURSIVE ToArrayEach(_, _, _)
ToArrayEach(rs, unit, acc) ==
    IF rs = <<>> THEN [cls |-> "list", ranges |-> <<>>, items |-> acc]
    ELSE LET x == TRToArray(Head(rs), unit)
         IN IF IsArray(x) THEN ToArrayEach(Tail(rs), unit, Append(acc, x.items))
            ELSE x

\* the items of a list of arrays, one array after the other
RECURSIVE Flatten(_)
Flatten(arrays) ==
    IF arrays = <<>> THEN <<>> ELSE Head(arrays) \o Flatten(Tail(arrays))

\* np.concatenate(arrays): needs at least one array
NpConcatenate(arrays) ==
    IF arrays = <<>> THEN Raised("ValueError") ELSE ArrayVal(Flatten(arrays))

\* DisjointTimeRanges.to_array (on the consolidated members)
DTRToArray(v, unit) ==
    LET each == ToArrayEach(Consolidate(v.ranges).ranges, unit, <<>>)
    IN IF each.cls = "list" THEN NpConcatenate(each.items) ELSE each

\* TimeRange.__sub__ whose right remainder starts at intersection.start
TRSub_RightFromStart(r, other) ==
    LET intersection == TRIntersection(r, other)
    IN IF TRBool(intersection)
       THEN DTRInit(
              (IF TwiLt(r.so, intersection.so)
               THEN <<TimeRange(r.start, intersection.start)>> ELSE <<>>)
              \o
              (IF TwiGt(r.eo, intersection.eo)
               THEN <<TimeRange(intersection.start, r.end)>> ELSE <<>>))
       ELSE TRVal(r)

\* TimeRange.__sub__ with a TimeRange
TRSub(r, other) ==
    LET intersection == TRIntersection(r, other)
    IN IF TRBool(intersection)
       THEN DTRInit(
              (IF TwiLt(r.so, intersection.so)
               THEN <<TimeRange(r.start, intersection.start)>> ELSE <<>>)
              \o
              (IF TwiGt(r.eo, intersection.eo)
               THEN <<TimeRange(intersection.end, r.end)>> ELSE <<>>))
       ELSE TRVal(r)

\* the concatenation of the `ranges` of a list of values
RECURSIVE ConcatRanges(_)
ConcatRanges(vals) ==
    IF vals = <<>> THEN <<>> ELSE Head(vals).ranges \o ConcatRanges(Tail(vals))

\* DisjointTimeRanges.__sub__ with a TimeRange r
DTRSubTR(v, r) ==
    DTRInit(ConcatRanges([i \in 1..Len(v.ranges) |-> TRSub(v.ranges[i], r)]))

\* the loop of __rsub__ leaving after its first iteration
SubEach_FirstOnly(new_ranges, rs) ==
    IF rs = <<>> THEN new_ranges
    ELSE IF IsTR(new_ranges)
         THEN TRSub(new_ranges.ranges[1], Head(rs))
         ELSE DTRInit(ConcatRanges([i \in 1..Len(new_ranges.ranges) |->
                                       TRSub(new_ranges.ranges[i], Head(rs))]))

\* the loop `new_ranges -= r` of __rsub__ over the members rs
RECURSIVE SubEach(_, _)
SubEach(new_ranges, rs) ==
    IF rs = <<>> THEN new_ranges
    ELSE SubEach(IF IsTR(new_ranges)
                 THEN TRSub(new_ranges.ranges[1], Head(rs))
                 ELSE DTRSubTR(new_ranges, Head(rs)),
                 Tail(rs))

\* __rsub__ that returns the copy without subtracting the members
DTRRSub_NoLoop(v, other) == TRVal(TRCopy(other))

\* DisjointTimeRanges.__rsub__: other - self for a TimeRange other
DTRRSub(v, other) == SubEach(TRVal(TRCopy(other)), v.ranges)

\* DisjointTimeRanges.__sub__, other a TimeRange or a DisjointTimeRanges
DTRSub(v, other) ==
    IF IsTR(other)
    THEN DTRSubTR(v, other.ranges[1])
    ELSE DTRInit(ConcatRanges([i \in 1..Len(v.ranges) |-> DTRRSub(other, v.ranges[i])]))

\* x - y: TimeRange.__sub__, DisjointTimeRanges.__sub__ and __rsub__
Sub(x, y) ==
    IF IsTR(x)
    THEN (IF IsTR(y) THEN TRSub(x.ranges[1], y.ranges[1]) ELSE DTRRSub(y, x.ranges[1]))
    ELSE DTRSub(x, y)

\* x ^ y that forgets the half other - self
Xor_LeftOnly(x, y) == Sub(x, y)

\* x ^ y: TimeRange.__xor__, DisjointTimeRanges.__xor__ and __rxor__
Xor(x, y) ==
    IF IsTR(x) /\ IsDTR(y)
    THEN Or(Sub(y, x), Sub(x, y))
    ELSE Or(Sub(x, y), Sub(y, x))

\* DisjointTimeRanges.__bool__
DTRBool(v) == Len(v.ranges) = 0

\* TimeRange.shift: None + dtime raises TypeError
CanShift(r) == r.start # NoneV /\ r.end # NoneV
TRShift(r, dtime) == TimeRange(r.start + dtime, r.end + dtime)

\* DisjointTimeRanges.shift
DTRShift(v, dtime) ==
    IF \A i \in 1..Len(v.ranges) : CanShift(v.ranges[i])
    THEN DTRInit([i \in 1..Len(v.ranges) |-> TRShift(v.ranges[i], dtime)])
    ELSE Raised("TypeError")

\* DisjointTimeRanges.__eq__ that compares the member lists as they are
DTREq_NoConsolidate(v, other) ==
    IF IsTR(other)
    THEN Len(v.ranges) = 1 /\ TREq(v.ranges[1], other.ranges[1])
    ELSE /\ Len(v.ranges) = Len(other.ranges)
         /\ \A i \in 1..Len(v.ranges) : TREq(v.ranges[i], other.ranges[i])

\* DisjointTimeRanges.__eq__ (both operands are consolidated first)
DTREq(v, other) ==
    IF IsTR(other)
    THEN Len(v.ranges) = 1 /\ TREq(v.ranges[1], other.ranges[1])
    ELSE LET rs1 == Consolidate(v.ranges).ranges
             rs2 == Consolidate(other.ranges).ranges
         IN /\ Len(rs1) = Len(rs2)
            /\ \A i \in 1..Len(rs1) : TREq(rs1[i], rs2[i])

\* x == y: TimeRange.__eq__, DisjointTimeRanges.__eq__ (also reflected)
Eq(x, y) ==
    IF IsTR(x)
    THEN (IF IsTR(y) THEN TREq(x.ranges[1], y.ranges[1]) ELSE DTREq(y, x))
    ELSE DTREq(x, y)

\* TimeRange.overlaps called with a DisjointTimeRanges: other.is_duration_zero
\* does not exist, and is only read when self.is_duration_zero is false
TROverlapsVal(r, other) ==
    IF IsTR(other) THEN BoolVal(TROverlaps(r, other.ranges[1]))
    ELSE IF r.is_duration_zero THEN BoolVal(FALSE)
    ELSE Raised("AttributeError")

\* DisjointTimeRanges.overlaps
DTROverlaps(v, other) ==
    \E i \in 1..Len(v.ranges) : \E j \in 1..Len(other.ranges) :
        TROverlaps(v.ranges[i], other.ranges[j])

\* ------------------------------------------------------------- TimeSeries
\* A key handed to TimeSeries: a str such as '2024-01-03' or an
\* np.datetime64; t is the instant it denotes.
StrKey(t) == [type |-> "str", t |-> t]
DtKey(t) == [type |-> "datetime64", t |-> t]

\* TimeSeries._key2dt
key2dt(key) == IF key.type = "str" THEN DtKey(key.t) ELSE key

\* A TimeSeries: `items` are its (key, value) pairs in key order, as the
\* SortedDict keeps them.
SeriesVal(items) == [cls |-> "TimeSeries", ranges |-> <<>>, items |-> items]
IsSeries(v) == v.cls = "TimeSeries"

\* a (key, value) tuple
PairVal(item) == [cls |-> "tuple", ranges |-> <<>>, key |-> item[1], value |-> item[2]]

\* __setitem__ that leaves a key already present as it is
SeriesSetItem_KeepsOld(items, key, value) ==
    LET k == key2dt(key)
        before == SelectSeq(items, LAMBDA item : item[1].t < k.t)
        same == SelectSeq(items, LAMBDA item : item[1].t = k.t)
        after == SelectSeq(items, LAMBDA item : item[1].t > k.t)
    IN before \o (IF same = <<>> THEN <<<<k, value>>>> ELSE same) \o after

\* TimeSeries.__setitem__: SortedDict.__setitem__ of the converted key
\* (a key already present keeps its place and takes the new value)
SeriesSetItem(items, key, value) ==
    LET k == key2dt(key)
        before == SelectSeq(items, LAMBDA item : item[1].t < k.t)
        after == SelectSeq(items, LAMBDA item : item[1].t > k.t)
    IN before \o <<<<k, value>>>> \o after

\* SortedDict.bisect_left / bisect_right: the index (from 0) where key would
\* be inserted before / after the keys equal to it
bisect_left(items, key) ==
    Cardinality({i \in 1..Len(items) : items[i][1].t < key.t})
bisect_right(items, key) ==
    Cardinality({i \in 1..Len(items) : items[i][1].t <= key.t})

\* the lookups hand the key to bisect as it is (no _key2dt): bisecting a
\* non-empty list of np.datetime64 keys compares the key with a stored key,
\* and comparing a str with an np.datetime64 raises TypeError
Unorderable(items, key) == key.type = "str" /\ items # <<>>

\* _index_of_last_inclusive that bisects to the left
index_of_last_inclusive_Left(items, key) == bisect_left(items, key) - 1

\* TimeSeries._index_of_*
index_of_last_inclusive(items, key) == bisect_right(items, key) - 1
index_of_last_exclusive(items, key) == bisect_left(items, key) - 1
index_of_next_inclusive(items, key) == bisect_left(items, key)
index_of_next_exclusive(items, key) == bisect_right(items, key)

\* _peekitem_only_positive without its test of i < 0: SortedDict.peekitem
\* counts a negative index from the end
peekitem_only_positive_Wraps(items, i) ==
    IF i >= Len(items) \/ i < -Len(items) THEN Raised("IndexError")
    ELSE IF i < 0 THEN PairVal(items[Len(items) + i + 1])
    ELSE PairVal(items[i + 1])

\* TimeSeries._peekitem_only_positive: SortedDict.peekitem(i) for i >= 0
\* (indexes count from 0)
peekitem_only_positive(items, i) ==
    IF i < 0 THEN Raised("IndexError")
    ELSE IF i >= Len(items) THEN Raised("IndexError")
    ELSE PairVal(items[i + 1])

\* TimeSeries.last_include_now / last_exclude_now / next_include_now /
\* next_exclude_now
last_include_now(items, key) ==
    IF Unorderable(items, key) THEN Raised("TypeError")
    ELSE peekitem_only_positive(items, index_of_last_inclusive(items, key))
last_exclude_now(items, key) ==
    IF Unorderable(items, key) THEN Raised("TypeError")
    ELSE peekitem_only_positive(items, index_of_last_exclusive(items, key))
next_include_now(items, key) ==
    IF Unorderable(items, key) THEN Raised("TypeError")
    ELSE peekitem_only_positive(items, index_of_next_inclusive(items, key))
next_exclude_now(items, key) ==
    IF Unorderable(items, key) THEN Raised("TypeError")
    ELSE peekitem_only_positive(items, index_of_next_exclusive(items, key))

\* a missing slice bound: key.start / key.stop is None
NoneKey == [type |-> "None", t |-> NoneV]

\* SortedList.irange(start, stop, inclusive=(True, False)): the items from
\* position bisect_left(start) up to position bisect_left(stop), None
\* standing for the first / one past the last position
irange(items, start, stop) ==
    LET min_pos == IF start = NoneKey THEN 0 ELSE bisect_left(items, start)
        max_pos == IF stop = NoneKey THEN Len(items) ELSE bisect_left(items, stop)
    IN IF min_pos < max_pos THEN SubSeq(items, min_pos + 1, max_pos) ELSE <<>>

\* dict.update of the raw (unconverted) keys followed by the sort of the
\* key list: a key seen more than once keeps the last value
RECURSIVE RawUpdate(_, _)
RawUpdate(items, pairs) ==
    IF pairs = <<>> THEN items
    ELSE LET key == Head(pairs)[1]
             before == SelectSeq(items, LAMBDA item : item[1].t < key.t)
             after == SelectSeq(items, LAMBDA item : item[1].t > key.t)
         IN RawUpdate(before \o <<Head(pairs)>> \o after, Tail(pairs))

\* the loop `for key, value in items: self[key] = value` of __init__
RECURSIVE SetEach(_, _)
SetEach(items, pairs) ==
    IF pairs = <<>> THEN items
    ELSE SetEach(SeriesSetItem(items, Head(pairs)[1], Head(pairs)[2]), Tail(pairs))

\* TimeSeries.__init__(pairs): SortedDict.__init__ stores the pairs under
\* their raw keys, then every item is stored again under its converted key
SeriesInit(pairs) == SeriesVal(SetEach(<<>>, RawUpdate(<<>>, pairs)))

\* a list of pairs holding both str and np.datetime64 keys: SortedDict
\* cannot order such keys (comparing a str with an np.datetime64 raises
\* TypeError)
MixedKeys(pairs) ==
    \E i \in 1..Len(pairs) : \E j \in 1..Len(pairs) : pairs[i][1].type # pairs[j][1].type

\* the outcome of TimeSeries(pairs): the TimeSeries, or the error raised
SeriesInitOutcome(pairs) ==
    IF MixedKeys(pairs) THEN Raised("TypeError") ELSE SeriesInit(pairs)

\* slicing that includes the key equal to stop
SeriesSlice_ClosedStop(items, start, stop) ==
    LET hi == key2dt(stop)
    IN SeriesInit(SelectSeq(irange(items, key2dt(start), NoneKey),
                            LAMBDA item : hi = NoneKey \/ item[1].t <= hi.t))

\* TimeSeries.__getitem__ with a slice key
SeriesSlice(items, start, stop) ==
    SeriesInit(irange(items, key2dt(start), key2dt(stop)))

\* TimeSeries.__getitem__ with one key, after __init__: dict.__getitem__
\* of the converted key
SeriesGetItem(items, key) ==
    LET k == key2dt(key)
        found == SelectSeq(items, LAMBDA item : item[1] = k)
    IN IF found = <<>> THEN Raised("KeyError")
       ELSE [cls |-> "value", ranges |-> <<>>, value |-> found[1][2]]

\* ------------------------------------------------------------ the program
\* A caller assembles a list `args` of TimeRange objects, builds operand `a`
\* from it, builds operand `b`, and then applies operations to the two.
VARIABLES
    args,   \* the list object the caller passes to DisjointTimeRanges(...)
    a,      \* first operand (NoVal until built)
    b,      \* second operand (NoVal until built)
    op,     \* name of the last operation
    arg,    \* its scalar arguments
    res,    \* its result
    clock,  \* the wall clock now() reads, in seconds
    time_last_wait_if_func_called,  \* the module global, per module
    pc,     \* the position of the running wait_if_pace_too_fast call
    frame   \* its locals

paceVars == <<clock, time_last_wait_if_func_called, pc, frame>>
vars == <<args, a, b, op, arg, res, clock, time_last_wait_if_func_called, pc, frame>>

\* the two modules that define wait_if_pace_too_fast
Modules == {"timemanager", "notz"}
NoFrame == [module |-> "none"]

ExtTimes == {TimewithInf(v) : v \in Instants \cup {FloatInf, FloatNInf}}
Shifts == {-1, 1}

\* the unit arguments drawn: days, weeks, and a token to_array rejects
Units == {"D", "W", "fortnight"}

\* every list of at most n TimeRange objects built from raw bounds
RangeLists(n) ==
    UNION {[1..k -> {TimeRange(s, e) : s \in RawBounds, e \in RawBounds}] : k \in 0..n}

\* the objects DisjointTimeRanges(rs) builds from the lists of the second operand
OtherSets == {DTRInit(rs) : rs \in RangeLists(MaxOtherLen)}

Init ==
    /\ args = <<>>
    /\ a = NoVal
    /\ b = NoVal
    /\ op = "start"
    /\ arg = <<>>
    /\ res = NoVal
    /\ clock = 0
    /\ time_last_wait_if_func_called = [m \in Modules |-> NoneV]
    /\ pc = "idle"
    /\ frame = NoFrame

\* x < y, x <= y, x == y, x > y, x >= y and y < x on two TimewithInf objects
Compare(x, y) ==
    /\ a = NoVal /\ args = <<>>
    /\ op' = "compare"
    /\ arg' = <<x, y>>
    /\ res' = [cls |-> "Comparison", ranges |-> <<>>,
               lt |-> TwiLt(x, y), le |-> TwiLe(x, y), eq |-> TwiEq(x, y),
               gt |-> TwiGt(x, y), ge |-> TwiGe(x, y), lt_rev |-> TwiLt(y, x)]
    /\ UNCHANGED <<args, a, b>>
    /\ UNCHANGED paceVars

\* TimeRange(start, end), appended to the caller's list
NewTimeRange(start, end) ==
    /\ a = NoVal /\ Len(args) < MaxLen
    /\ args' = Append(args, TimeRange(start, end))
    /\ op' = "TimeRange"
    /\ arg' = <<start, end>>
    /\ res' = TRVal(TimeRange(start, end))
    /\ UNCHANGED <<a, b>>
    /\ UNCHANGED paceVars

\* a = DisjointTimeRanges(args): args is consolidated in place
NewSet ==
    /\ a = NoVal
    /\ a' = DTRInit(args)
    /\ args' = Consolidate(args).list
    /\ op' = "DisjointTimeRanges"
    /\ arg' = <<>>
    /\ res' = a'
    /\ UNCHANGED b
    /\ UNCHANGED paceVars

\* a = DisjointTimeRanges()
NewSetDefault ==
    /\ a = NoVal /\ args = <<>>
    /\ a' = DTRInitDefault
    /\ op' = "DisjointTimeRanges"
    /\ arg' = <<>>
    /\ res' = a'
    /\ UNCHANGED <<args, b>>
    /\ UNCHANGED paceVars

\* a is the one TimeRange of the list
TakeRange ==
    /\ a = NoVal /\ Len(args) = 1
    /\ a' = TRVal(args[1])
    /\ op' = "operand"
    /\ arg' = <<>>
    /\ res' = NoVal
    /\ UNCHANGED <<args, b>>
    /\ UNCHANGED paceVars

\* b = TimeRange(start, end); the caller's list is dropped
OtherRange(start, end) ==
    /\ a # NoVal /\ b = NoVal
    /\ b' = TRVal(TimeRange(start, end))
    /\ args' = <<>>
    /\ op' = "operand"
    /\ arg' = <<>>
    /\ res' = NoVal
    /\ UNCHANGED a
    /\ UNCHANGED paceVars

\* b = DisjointTimeRanges(rs) for a fresh list rs; v is the object built
OtherSet(v) ==
    /\ a # NoVal /\ b = NoVal
    /\ b' = v
    /\ args' = <<>>
    /\ op' = "operand"
    /\ arg' = <<>>
    /\ res' = NoVal
    /\ UNCHANGED a
    /\ UNCHANGED paceVars

Ready == a # NoVal /\ b # NoVal

\* the list self.ranges after self._consolidate_ranges()
Consolidated(v) == IF IsDTR(v) THEN DTRVal(Consolidate(v.ranges).ranges) ELSE v

\* a.contains(t)
Contains(t) ==
    /\ Ready
    /\ op' = "contains"
    /\ arg' = <<t>>
    /\ res' = BoolVal(IF IsTR(a) THEN TRContains(a.ranges[1], t) ELSE DTRContains(a, t))
    /\ UNCHANGED <<args, a, b>>
    /\ UNCHANGED paceVars

\* a.overlaps(b)
Overlaps ==
    /\ Ready
    /\ op' = "overlaps"
    /\ arg' = <<>>
    /\ res' = IF IsTR(a) THEN TROverlapsVal(a.ranges[1], b) ELSE BoolVal(DTROverlaps(a, b))
    /\ UNCHANGED <<args, a, b>>
    /\ UNCHANGED paceVars

\* a | b: union consolidates the DisjointTimeRanges it is called on
Union ==
    /\ Ready
    /\ op' = "union"
    /\ arg' = <<>>
    /\ res' = Or(a, b)
    /\ a' = IF IsDTR(a) THEN Consolidated(a) ELSE a
    /\ b' = IF IsTR(a) /\ IsDTR(b) THEN Consolidated(b) ELSE b
    /\ UNCHANGED args
    /\ UNCHANGED paceVars

\* a & b
Intersection ==
    /\ Ready
    /\ op' = "intersection"
    /\ arg' = <<>>
    /\ res' = And(a, b)
    /\ UNCHANGED <<args, a, b>>
    /\ UNCHANGED paceVars

\* a - b
Difference ==
    /\ Ready
    /\ op' = "difference"
    /\ arg' = <<>>
    /\ res' = Sub(a, b)
    /\ UNCHANGED <<args, a, b>>
    /\ UNCHANGED paceVars

\* a - a, on the operand alone
SelfDifference ==
    /\ a # NoVal /\ b = NoVal
    /\ op' = "self_difference"
    /\ arg' = <<>>
    /\ res' = Sub(a, a)
    /\ UNCHANGED <<args, a, b>>
    /\ UNCHANGED paceVars

\* bool(a), on the operand alone
Bool ==
    /\ a # NoVal /\ b = NoVal
    /\ op' = "bool"
    /\ arg' = <<>>
    /\ res' = BoolVal(IF IsTR(a) THEN TRBool(a.ranges[1]) ELSE DTRBool(a))
    /\ UNCHANGED <<args, a, b>>
    /\ UNCHANGED paceVars

\* a.to_array(unit), on the operand alone; DisjointTimeRanges.to_array
\* consolidates the set first
ToArray(unit) ==
    /\ a # NoVal /\ b = NoVal
    /\ op' = "to_array"
    /\ arg' = <<unit>>
    /\ res' = IF IsTR(a) THEN TRToArray(a.ranges[1], unit) ELSE DTRToArray(a, unit)
    /\ a' = Consolidated(a)
    /\ UNCHANGED <<args, b>>
    /\ UNCHANGED paceVars

\* a ^ b
SymmetricDifference ==
    /\ Ready
    /\ op' = "symmetric_difference"
    /\ arg' = <<>>
    /\ res' = Xor(a, b)
    /\ UNCHANGED <<args, a, b>>
    /\ UNCHANGED paceVars

\* a.shift(dtime); shifts that would leave 1..MaxT are not taken
Shift(dtime) ==
    /\ Ready
    /\ \A i \in 1..Len(a.ranges) :
          CanShift(a.ranges[i]) =>
              /\ a.ranges[i].start + dtime \in Instants
              /\ a.ranges[i].end + dtime \in Instants
    /\ op' = "shift"
    /\ arg' = <<dtime>>
    /\ res' = IF IsTR(a)
              THEN (IF CanShift(a.ranges[1]) THEN TRVal(TRShift(a.ranges[1], dtime))
                    ELSE Raised("TypeError"))
              ELSE DTRShift(a, dtime)
    /\ UNCHANGED <<args, a, b>>
    /\ UNCHANGED paceVars

\* a.copy(): DisjointTimeRanges(ranges=self.ranges) consolidates the shared
\* list object in place
Copy ==
    /\ Ready
    /\ op' = "copy"
    /\ arg' = <<>>
    /\ res' = IF IsTR(a) THEN TRVal(TRCopy(a.ranges[1])) ELSE DTRCopy(a)
    /\ a' = IF IsDTR(a) THEN DTRVal(Consolidate(a.ranges).list) ELSE a
    /\ UNCHANGED <<args, b>>
    /\ UNCHANGED paceVars

\* a == b: DisjointTimeRanges.__eq__ consolidates both sets
Equals ==
    /\ Ready
    /\ op' = "eq"
    /\ arg' = <<>>
    /\ res' = BoolVal(Eq(a, b))
    /\ a' = IF IsDTR(a) /\ IsDTR(b) THEN Consolidated(a) ELSE a
    /\ b' = IF IsDTR(a) /\ IsDTR(b) THEN Consolidated(b) ELSE b
    /\ UNCHANGED args
    /\ UNCHANGED paceVars

Next ==
    \/ \E x \in ExtTimes, y \in ExtTimes : Compare(x, y)
    \/ \E s \in RawBounds, e \in RawBounds : NewTimeRange(s, e)
    \/ NewSet
    \/ NewSetDefault
    \/ TakeRange
    \/ \E s \in RawBounds, e \in RawBounds : OtherRange(s, e)
    \/ \E v \in OtherSets : OtherSet(v)
    \/ \E t \in Axis : Contains(t)
    \/ Overlaps
    \/ Union
    \/ Intersection
    \/ Difference
    \/ SelfDifference
    \/ Bool
    \/ \E unit \in Units : ToArray(unit)
    \/ SymmetricDifference
    \/ \E d \in Shifts : Shift(d)
    \/ Copy
    \/ Equals

Spec == Init /\ [][Next]_vars

\* The same program restricted to single TimeRange operands.
NextRange ==
    \/ \E x \in ExtTimes, y \in ExtTimes : Compare(x, y)
    \/ \E s \in RawBounds, e \in RawBounds : args = <<>> /\ NewTimeRange(s, e)
    \/ TakeRange
    \/ \E s \in RawBounds, e \in RawBounds : OtherRange(s, e)
    \/ \E t \in Axis : Contains(t)
    \/ Overlaps
    \/ Union
    \/ Intersection
    \/ Difference
    \/ SelfDifference
    \/ Bool
    \/ \E unit \in Units : ToArray(unit)
    \/ SymmetricDifference
    \/ \E d \in Shifts : Shift(d)
    \/ Copy
    \/ Equals

SpecRange == Init /\ [][NextRange]_vars

\* ---------------------------------------------- the TimeSeries program
\* A caller creates an empty TimeSeries `a`, stores values under str and
\* np.datetime64 keys, and looks up the item nearest to a query time.
KeyTimesDrawn == 1..MaxKey
SeriesKeys == {StrKey(t) : t \in KeyTimesDrawn} \cup {DtKey(t) : t \in KeyTimesDrawn}
SeriesValues == 1..MaxValue
QueryKeys == {DtKey(t) : t \in 0..(MaxKey + 1)} \cup {StrKey(t) : t \in KeyTimesDrawn}
SliceKeys == SeriesKeys \cup {NoneKey}
PairLists == UNION {[1..n -> SeriesKeys \X SeriesValues] : n \in 0..MaxItems}

\* a = TimeSeries()
NewSeries ==
    /\ a = NoVal /\ args = <<>>
    /\ a' = SeriesVal(<<>>)
    /\ op' = "TimeSeries"
    /\ arg' = <<>>
    /\ res' = a'
    /\ UNCHANGED <<args, b>>
    /\ UNCHANGED paceVars

\* a = TimeSeries(pairs), pairs a list of (key, value) tuples; an error
\* raised by the constructor is not caught, nothing is constructed after it
NewSeriesFrom ==
    /\ a = NoVal /\ args = <<>> /\ res = NoVal
    /\ \E pairs \in PairLists :
         /\ a' = IF IsSeries(SeriesInitOutcome(pairs)) THEN SeriesInitOutcome(pairs) ELSE a
         /\ arg' = <<pairs>>
         /\ res' = SeriesInitOutcome(pairs)
    /\ op' = "TimeSeries"
    /\ UNCHANGED <<args, b>>
    /\ UNCHANGED paceVars

\* a[key] = value
SetItem(key, value) ==
    /\ IsSeries(a)
    /\ a' = SeriesVal(SeriesSetItem(a.items, key, value))
    /\ op' = "setitem"
    /\ arg' = <<key, value>>
    /\ res' = NoVal
    /\ UNCHANGED <<args, b>>
    /\ UNCHANGED paceVars

\* a[start:stop]
Slice(start, stop) ==
    /\ IsSeries(a)
    /\ op' = "slice"
    /\ arg' = <<start, stop>>
    /\ res' = SeriesSlice(a.items, start, stop)
    /\ UNCHANGED <<args, a, b>>
    /\ UNCHANGED paceVars

\* a.last_include_now(key)
LastIncludeNow(key) ==
    /\ IsSeries(a)
    /\ op' = "last_include_now"
    /\ arg' = <<key>>
    /\ res' = last_include_now(a.items, key)
    /\ UNCHANGED <<args, a, b>>
    /\ UNCHANGED paceVars

\* a.last_exclude_now(key)
LastExcludeNow(key) ==
    /\ IsSeries(a)
    /\ op' = "last_exclude_now"
    /\ arg' = <<key>>
    /\ res' = last_exclude_now(a.items, key)
    /\ UNCHANGED <<args, a, b>>
    /\ UNCHANGED paceVars

\* a.next_include_now(key)
NextIncludeNow(key) ==
    /\ IsSeries(a)
    /\ op' = "next_include_now"
    /\ arg' = <<key>>
    /\ res' = next_include_now(a.items, key)
    /\ UNCHANGED <<args, a, b>>
    /\ UNCHANGED paceVars

\* a.next_exclude_now(key)
NextExcludeNow(key) ==
    /\ IsSeries(a)
    /\ op' = "next_exclude_now"
    /\ arg' = <<key>>
    /\ res' = next_exclude_now(a.items, key)
    /\ UNCHANGED <<args, a, b>>
    /\ UNCHANGED paceVars

\* a[key]
GetItem(key) ==
    /\ IsSeries(a)
    /\ op' = "getitem"
    /\ arg' = <<key>>
    /\ res' = SeriesGetItem(a.items, key)
    /\ UNCHANGED <<args, a, b>>
    /\ UNCHANGED paceVars

NextSeries ==
    \/ NewSeries
    \/ NewSeriesFrom
    \/ \E key \in SeriesKeys, value \in SeriesValues : SetItem(key, value)
    \/ \E start \in SliceKeys, stop \in SliceKeys : Slice(start, stop)
    \/ \E key \in QueryKeys : LastIncludeNow(key)
    \/ \E key \in QueryKeys : LastExcludeNow(key)
    \/ \E key \in QueryKeys : NextIncludeNow(key)
    \/ \E key \in QueryKeys : NextExcludeNow(key)
    \/ \E key \in QueryKeys : GetItem(key)

SpecSeries == Init /\ [][NextSeries]_vars

\* ------------------------------------------------------------- the pacing
\* wait_if_pace_too_fast of timemanager.py and of notz.py, one step per
\* statement, with a wall clock that advances between and during the steps.
\* time_module.sleep(seconds) returns once at least `seconds` have passed
\* on that clock.

\* a second passes
Tick ==
    /\ clock < MaxClock
    /\ clock' = clock + 1
    /\ UNCHANGED <<args, a, b, op, arg, res, time_last_wait_if_func_called, pc, frame>>

\* module.wait_if_pace_too_fast(dtime_second) is entered: the test of the
\* global and, when it is set, end_time = global + dtime_second
CallWaitIfPaceTooFast(module, dtime_second) ==
    LET last == time_last_wait_if_func_called[module]
    IN /\ pc = "idle" /\ a = NoVal /\ args = <<>>
       /\ frame' = [module |-> module, dtime_second |-> dtime_second,
                    first |-> (last = NoneV),
                    end_time |-> IF last = NoneV THEN NoneV ELSE last + dtime_second,
                    seconds |-> NoneV, wake |-> NoneV]
       /\ pc' = IF last = NoneV THEN "record" ELSE "wait_until"
       /\ op' = "wait_if_pace_too_fast"
       /\ arg' = <<module, dtime_second>>
       /\ res' = NoVal
       /\ UNCHANGED <<args, a, b, clock, time_last_wait_if_func_called>>

\* wait_until(utc_end_time): timemanager.py computes
\* (end_time - now()).total_seconds(); notz.py reads its local end_time
\* before assigning it (the parameter is utc_end_time) and raises
\* UnboundLocalError, which ends the call
WaitUntil ==
    /\ pc = "wait_until"
    /\ IF frame.module = "notz"
       THEN /\ pc' = "idle"
            /\ frame' = NoFrame
            /\ res' = Raised("UnboundLocalError")
       ELSE /\ pc' = "wait"
            /\ frame' = [frame EXCEPT !.seconds = frame.end_time - clock]
            /\ res' = res
    /\ UNCHANGED <<args, a, b, op, arg, clock, time_last_wait_if_func_called>>

\* wait(seconds): sleeps only when seconds > 0
Wait ==
    /\ pc = "wait"
    /\ IF frame.seconds > 0
       THEN /\ pc' = "sleep"
            /\ frame' = [frame EXCEPT !.wake = clock + frame.seconds]
       ELSE /\ pc' = "record"
            /\ frame' = frame
    /\ UNCHANGED <<args, a, b, op, arg, res, clock, time_last_wait_if_func_called>>

\* time_module.sleep(seconds) returns
Wake ==
    /\ pc = "sleep"
    /\ clock >= frame.wake
    /\ pc' = "record"
    /\ UNCHANGED <<args, a, b, op, arg, res, clock, time_last_wait_if_func_called, frame>>

\* _time_last_wait_if_func_called = now(), and the call returns
Record ==
    /\ pc = "record"
    /\ time_last_wait_if_func_called' =
           [time_last_wait_if_func_called EXCEPT ![frame.module] = clock]
    /\ pc' = "idle"
    /\ frame' = NoFrame
    /\ res' = [cls |-> "returned", ranges |-> <<>>]
    /\ UNCHANGED <<args, a, b, op, arg, clock>>

NextPace ==
    \/ Tick
    \/ \E module \in Modules, d \in 0..MaxD : CallWaitIfPaceTooFast(module, d)
    \/ WaitUntil
    \/ Wait
    \/ Wake
    \/ Record

SpecPace == Init /\ [][NextPace]_vars

\* ------------------------------------- timemanager.py: the legacy classes
\* timemanager.TimeRange(start, end), start < end
LegacyTimeRange(start, end) == [start |-> start, end |-> end]

\* timemanager.TimeRange.overlaps: also true for ranges that touch
LegacyOverlaps(self, other_range) ==
    self.start <= other_range.end /\ self.end >= other_range.start

LegacyVal(ranges) == [cls |-> "timemanager.DisjointTimeRanges", ranges |-> ranges]
IsLegacy(v) == v.cls = "timemanager.DisjointTimeRanges"

\* list.remove of the object at position i
RemoveAt(list, i) == SubSeq(list, 1, i - 1) \o SubSeq(list, i + 1, Len(list))

\* the loop of add_range: the list iterator stands at position i of
\* self.ranges while the body removes the item it has just yielded, so the
\* items behind it move one position down and the next one is stepped over
RECURSIVE AddRangeLoop(_, _, _)
AddRangeLoop(ranges, i, new_range) ==
    IF i > Len(ranges) THEN Append(ranges, new_range)
    ELSE IF LegacyOverlaps(ranges[i], new_range)
         THEN AddRangeLoop(RemoveAt(ranges, i), i + 1,
                           LegacyTimeRange(IF ranges[i].start < new_range.start
                                           THEN ranges[i].start ELSE new_range.start,
                                           IF ranges[i].end > new_range.end
                                           THEN ranges[i].end ELSE new_range.end))
         ELSE AddRangeLoop(ranges, i + 1, new_range)

\* timemanager.DisjointTimeRanges.add_range: self.ranges afterwards
add_range(ranges, start, end) == AddRangeLoop(ranges, 1, LegacyTimeRange(start, end))

\* a = timemanager.DisjointTimeRanges()
NewLegacySet ==
    /\ a = NoVal /\ args = <<>>
    /\ a' = LegacyVal(<<>>)
    /\ op' = "timemanager.DisjointTimeRanges"
    /\ arg' = <<>>
    /\ res' = a'
    /\ UNCHANGED <<args, b>>
    /\ UNCHANGED paceVars

\* a.add_range(start, end): TimeRange(start, end) raises ValueError unless
\* start < end
AddRange(start, end) ==
    /\ IsLegacy(a) /\ Len(a.ranges) < MaxLen
    /\ op' = "add_range"
    /\ arg' = <<start, end>>
    /\ IF start >= end
       THEN a' = a /\ res' = Raised("ValueError")
       ELSE a' = LegacyVal(add_range(a.ranges, start, end)) /\ res' = NoVal
    /\ UNCHANGED <<args, b>>
    /\ UNCHANGED paceVars

\* a + timemanager.TimeRange(start, end): add_range on a copy of the list
LegacyAdd(start, end) ==
    /\ IsLegacy(a) /\ start < end
    /\ op' = "add"
    /\ arg' = <<start, end>>
    /\ res' = LegacyVal(add_range(a.ranges, start, end))
    /\ UNCHANGED <<args, a, b>>
    /\ UNCHANGED paceVars

NextLegacy ==
    \/ NewLegacySet
    \/ \E start \in Instants, end \in Instants : AddRange(start, end)
    \/ \E start \in Instants, end \in Instants : LegacyAdd(start, end)

SpecLegacy == Init /\ [][NextLegacy]_vars

\* ------------------------------------------------- reference semantics
\* Position of a TimewithInf object on the extended time axis.
Rank(x) == IF x.is_ninf THEN 0 ELSE IF x.is_inf THEN MaxT + 1 ELSE x.value

\* Lower and upper bound of a TimeRange from its public start / end
\* attributes (None is unbounded).
Lo(r) == IF r.start = NoneV THEN 0 ELSE r.start
Hi(r) == IF r.end = NoneV THEN MaxT + 1 ELSE r.end

\* the instants of [start, end)
Points(r) == {t \in Axis : Lo(r) <= t /\ t < Hi(r)}

\* the instants covered by the members of a value
RECURSIVE PointsOfList(_)
PointsOfList(rs) ==
    IF rs = <<>> THEN {} ELSE Points(Head(rs)) \cup PointsOfList(Tail(rs))
PointsOf(v) == PointsOfList(v.ranges)

\* the instants a value contains according to its contains method
Contained(v) ==
    {t \in Axis :
        IF IsTR(v) THEN TRContains(v.ranges[1], t) ELSE DTRContains(v, t)}

\* ---------------------------------------------------------------- claims
\* C3: the comparisons of TimewithInf are the total order of the extended
\* time axis: x < y, x == y, x <= y, x > y, x >= y agree with the positions
\* of x and y (-inf lowest, +inf highest, instants in between), and exactly
\* one of x < y, x == y, y < x holds.
C3_TotalOrder ==
    op = "compare" =>
        LET rx == Rank(arg[1])
            ry == Rank(arg[2])
        IN /\ res.lt = (rx < ry)
           /\ res.eq = (rx = ry)
           /\ res.le = (rx <= ry)
           /\ res.gt = (rx > ry)
           /\ res.ge = (rx >= ry)
           /\ res.lt_rev = (ry < rx)
           /\ Cardinality({k \in 1..3 : <<res.lt, res.eq, res.lt_rev>>[k]}) = 1

C3_Witness ==
    /\ op = "compare"
    /\ arg[1].is_ninf /\ arg[2].is_ninf
    /\ res.eq /\ ~res.lt

RangesInState ==
    {args[i] : i \in 1..Len(args)}
    \cup {a.ranges[i] : i \in 1..Len(a.ranges)}
    \cup {b.ranges[i] : i \in 1..Len(b.ranges)}
    \cup {res.ranges[i] : i \in 1..Len(res.ranges)}

Meet(r, o) == Points(r) \cap Points(o) # {}
Touch(r, o) ==
    \/ (r.end # NoneV /\ r.end = o.start)
    \/ (o.end # NoneV /\ o.end = r.start)

\* (min(starts), max(ends)) of two ranges, None standing for unbounded
MinStart(r, o) == IF Lo(r) <= Lo(o) THEN r.start ELSE o.start
MaxEnd(r, o) == IF Hi(r) >= Hi(o) THEN r.end ELSE o.end

\* the single spanning range / same points as the two operands together
IsSpanOf(v, r, o) ==
    /\ IsTR(v)
    /\ v.ranges[1].start = MinStart(r, o)
    /\ v.ranges[1].end = MaxEnd(r, o)
SamePointsAsUnion(v, x, y) == Contained(v) = Contained(x) \cup Contained(y)

Canonical(rs) ==
    /\ \A i \in 1..Len(rs) : Lo(rs[i]) < Hi(rs[i])
    /\ \A i \in 1..Len(rs) : \A j \in 1..Len(rs) : i < j => Hi(rs[i]) < Lo(rs[j])

ReturnsSet ==
    {"DisjointTimeRanges", "union", "intersection", "difference",
     "symmetric_difference", "shift", "copy"}

\* C1: after construction from any list, and after every operation that
\* returns a DisjointTimeRanges, the member list is in canonical form.
C1_CanonicalForm == (op \in ReturnsSet /\ IsDTR(res)) => Canonical(res.ranges)

\* C8: a | b with a DisjointTimeRanges on either side returns the
\* consolidation of the concatenated member lists: a DisjointTimeRanges in
\* canonical form that contains t iff a or b contains t; and it equals b | a.
C8_Union ==
    [][(op' = "union" /\ Ready /\ (IsDTR(a) \/ IsDTR(b))) =>
          /\ IsDTR(res')
          /\ Canonical(res'.ranges)
          /\ PointsOf(res') = Contained(res')
          /\ SamePointsAsUnion(res', a, b)
          /\ Eq(res', Or(b, a))]_vars

C8_Witness ==
    /\ op = "union" /\ IsDTR(a) /\ IsDTR(b)
    /\ Len(a.ranges) = 2 /\ Len(b.ranges) = 1 /\ Len(res.ranges) = 1
    /\ res.ranges[1].start # NoneV /\ res.ranges[1].end # NoneV

\* the non-empty pairwise intersections of the members of two values
PairwiseIntersections(x, y) ==
    {ix \in {TRIntersection(x.ranges[i], y.ranges[j]) :
                 i \in 1..Len(x.ranges), j \in 1..Len(y.ranges)} : TRBool(ix)}

\* C9: DisjointTimeRanges.intersection returns a DisjointTimeRanges whose
\* members are the non-empty pairwise intersections, consolidated; it
\* contains t iff both operands contain t; when no pair intersects it is a
\* DisjointTimeRanges with zero members, equal to the empty set.
C9_Intersection ==
    (op = "intersection" /\ IsDTR(a)) =>
        /\ IsDTR(res)
        /\ Canonical(res.ranges)
        /\ (Canonical(a.ranges) /\ Canonical(b.ranges)) =>
              {res.ranges[i] : i \in 1..Len(res.ranges)} = PairwiseIntersections(a, b)
        /\ Contained(res) = Contained(a) \cap Contained(b)
        /\ PairwiseIntersections(a, b) = {} =>
              /\ Len(res.ranges) = 0
              /\ Eq(res, DTRZeroRange)

\* a - r1 - r2 - ...: the members rs subtracted one at a time from the whole
RECURSIVE SubOneAtATime(_, _)
SubOneAtATime(acc, rs) ==
    IF rs = <<>> THEN acc ELSE SubOneAtATime(Sub(acc, TRVal(Head(rs))), Tail(rs))

C11_Partition == (op = "difference") => Eq(Or(res, And(a, b)), a)

\* the instants in exactly one of two values
SymDiffPoints(x, y) ==
    (Contained(x) \ Contained(y)) \cup (Contained(y) \ Contained(x))

\* C12: symmetric difference is commutative, (a ^ b) == (b ^ a) evaluates
\* to true (in both directions of ==), a ^ b equals (a - b) | (b - a), and
\* it contains exactly the instants that one operand contains and the other
\* does not.
C12_SymmetricDifference ==
    (op = "symmetric_difference") =>
        /\ Eq(res, Xor(b, a))
        /\ Eq(Xor(b, a), res)
        /\ Eq(res, Or(Sub(a, b), Sub(b, a)))
        /\ Contained(res) = SymDiffPoints(a, b)

C12_Witness ==
    /\ op = "symmetric_difference" /\ IsDTR(a) /\ IsTR(b)
    /\ Len(a.ranges) = 2 /\ Len(res.ranges) = 3
    /\ Contained(a) \cap Contained(b) # {}
    /\ Contained(b) \ Contained(a) # {}

\* C13: consolidation is idempotent: the member list that one run of
\* _consolidate_ranges leaves from any input list is left unchanged (same
\* members, same order, same count) by a second run.
C13_Idempotent ==
    (op = "DisjointTimeRanges") => Consolidate(res.ranges).ranges = res.ranges

BoundsOf(rs) == [i \in 1..Len(rs) |-> <<rs[i].start, rs[i].end>>]

\* every reordering of a list
Reorderings(rs) ==
    {[i \in 1..Len(rs) |-> rs[f[i]]] : f \in Permutations(1..Len(rs))}

C16_Bool ==
    (op = "bool") =>
        res = BoolVal(IF IsTR(a) THEN Lo(a.ranges[1]) < Hi(a.ranges[1])
                      ELSE Len(a.ranges) > 0)

\* a TimeRange with an infinite bound
Unbounded(r) == r.start = NoneV \/ r.end = NoneV

C18_ToArray ==
    (op = "to_array" /\ IsTR(a) /\ ~Unbounded(a.ranges[1])
        /\ arg[1] \in np_time_units) =>
        LET r == a.ranges[1]
            step == UnitDays(arg[1])
        IN /\ IsArray(res)
           /\ res.items = Arange(r.start, r.end, step)
           /\ Len(res.items) > 0 => res.items[1] = r.start
           /\ \A i \in 1..(Len(res.items) - 1) :
                  res.items[i + 1] = res.items[i] + step
           /\ \A i \in 1..Len(res.items) :
                  /\ TRContains(r, res.items[i])
                  /\ r.start <= res.items[i] /\ res.items[i] < r.end
           /\ r.is_duration_zero => res.items = <<>>

\* C19: DisjointTimeRanges.to_array(unit) returns the concatenation, in
\* member order, of each member's to_array(unit); it fails only when some
\* member is unbounded or the unit is unsupported; for a set with zero
\* members it returns the empty sequence without failing.
C19_ToArray ==
    (op = "to_array" /\ IsDTR(a)) =>
        LET rs == a.ranges
            unit == arg[1]
            fails == \/ \E i \in 1..Len(rs) : Unbounded(rs[i])
                     \/ unit \notin np_time_units
        IN /\ ~IsArray(res) => fails
           /\ ~fails =>
                 /\ IsArray(res)
                 /\ res.items = Flatten([i \in 1..Len(rs) |-> TRToArray(rs[i], unit).items])
           /\ (Len(rs) = 0 /\ unit \in np_time_units) => res = ArrayVal(<<>>)

\* the instants of the keys a TimeSeries holds, and the item stored under one
KeyTimes(v) == {v.items[i][1].t : i \in 1..Len(v.items)}
ItemAt(v, t) == CHOOSE item \in {v.items[i] : i \in 1..Len(v.items)} : item[1].t = t
Greatest(S) == CHOOSE x \in S : \A y \in S : y <= x
Least(S) == CHOOSE x \in S : \A y \in S : x <= y

\* the (key, value) pair a lookup must return when the set S of candidate
\* keys is not empty: the one of the greatest / least candidate
PairOfGreatest(v, S) == PairVal(ItemAt(v, Greatest(S)))
PairOfLeast(v, S) == PairVal(ItemAt(v, Least(S)))

Lookups ==
    {"last_include_now", "last_exclude_now", "next_include_now", "next_exclude_now"}

Candidates(v, lookup, t) ==
    {k \in KeyTimes(v) :
        CASE lookup = "last_include_now" -> k <= t
          [] lookup = "last_exclude_now" -> k < t
          [] lookup = "next_include_now" -> k >= t
          [] lookup = "next_exclude_now" -> k > t}

C22_Slice ==
    [][(op' = "slice" /\ IsSeries(a)) =>
          LET start == arg'[1]
              stop == arg'[2]
              inside(item) ==
                  /\ (start = NoneKey \/ start.t <= item[1].t)
                  /\ (stop = NoneKey \/ item[1].t < stop.t)
          IN /\ IsSeries(res')
             /\ res'.items = SelectSeq(a.items, inside)
             /\ a' = a]_vars

C22_Witness ==
    /\ op = "slice" /\ Len(a.items) = 3 /\ Len(res.items) = 1
    /\ arg[1] # NoneKey /\ arg[2] # NoneKey
    /\ arg[2].t = a.items[3][1].t
    /\ arg[1].t = a.items[2][1].t

\* the value of the last pair of a list stored at instant t
LastValueAt(pairs, t) ==
    pairs[Greatest({i \in 1..Len(pairs) : pairs[i][1].t = t})][2]

\* C23: after any sequence of insertions (entries given at construction or
\* by item assignment, in any order) iteration yields each distinct instant
\* exactly once, in strictly ascending key order, and the value stored at
\* an instant is the one of the most recent insertion at that instant:
\*  - the items of every TimeSeries are strictly ascending np.datetime64 keys;
\*  - a[key] = value stores value at the instant of key, adds no other
\*    instant and changes no other item;
\*  - TimeSeries(pairs) holds exactly the instants of the pairs, each with
\*    the value of the last pair of the list at that instant.
C23_Insertions ==
    [][/\ IsSeries(a') =>
            /\ \A i \in 1..Len(a'.items) : a'.items[i][1].type = "datetime64"
            /\ \A i \in 1..Len(a'.items) : \A j \in 1..Len(a'.items) :
                   i < j => a'.items[i][1].t < a'.items[j][1].t
       /\ (op' = "setitem") =>
            /\ KeyTimes(a') = KeyTimes(a) \cup {arg'[1].t}
            /\ ItemAt(a', arg'[1].t)[2] = arg'[2]
            /\ \A t \in KeyTimes(a) \ {arg'[1].t} : ItemAt(a', t) = ItemAt(a, t)
       /\ (op' = "TimeSeries" /\ IsSeries(a') /\ arg' # <<>>) =>
            LET pairs == arg'[1]
            IN /\ KeyTimes(a') = {pairs[i][1].t : i \in 1..Len(pairs)}
               /\ \A t \in KeyTimes(a') : ItemAt(a', t)[2] = LastValueAt(pairs, t)]_vars

C23_Witness ==
    /\ op = "TimeSeries" /\ arg # <<>> /\ Len(arg[1]) = 2 /\ IsSeries(a)
    /\ arg[1][1][1] = arg[1][2][1] /\ arg[1][1][2] # arg[1][2][2]
    /\ Len(a.items) = 1 /\ a.items[1][2] = arg[1][2][2]

\* the result of the named lookup on the items of a TimeSeries
EntryPoint(name, items, key) ==
    CASE name = "last_include_now" -> last_include_now(items, key)
      [] name = "last_exclude_now" -> last_exclude_now(items, key)
      [] name = "next_include_now" -> next_include_now(items, key)
      [] name = "next_exclude_now" -> next_exclude_now(items, key)

\* insertion, item lookup and slice bounds convert a textual key
C24_Converted ==
    /\ (op = "setitem") =>
           \A v \in SeriesValues :
               SeriesSetItem(a.items, StrKey(arg[1].t), v) = SeriesSetItem(a.items, DtKey(arg[1].t), v)
    /\ (op = "slice" /\ IsSeries(a)) =>
           \A start \in {arg[1], key2dt(arg[1])} : \A stop \in {arg[2], key2dt(arg[2])} :
               SeriesSlice(a.items, start, stop) = res
    /\ (op = "getitem") =>
           res = SeriesGetItem(a.items, key2dt(arg[1]))

\* C24: key normalization is uniform: inserting an instant under its
\* textual form and under its typed form lead to the same TimeSeries, and
\* item lookup, the four directional lookups and slicing return the same
\* result for the textual and for the typed form of a key.
C24_Normalization ==
    /\ C24_Converted
    /\ (op \in Lookups) => res = EntryPoint(op, a.items, key2dt(arg[1]))

\* C26: as the docstrings of TimeSeries state, last_include_now(t) returns
\* the item of the nearest time at or after t, last_exclude_now(t) that of
\* the nearest time strictly after t, next_include_now(t) that of the
\* nearest time at or before t and next_exclude_now(t) that of the nearest
\* time strictly before t, whenever such a time exists (t an np.datetime64).
C26_Docstrings ==
    (op \in Lookups /\ arg[1].type = "datetime64") =>
    LET t == arg[1].t
        atOrAfter == Candidates(a, "next_include_now", t)
        after == Candidates(a, "next_exclude_now", t)
        atOrBefore == Candidates(a, "last_include_now", t)
        before == Candidates(a, "last_exclude_now", t)
    IN /\ (op = "last_include_now" /\ atOrAfter # {}) =>
              res = PairOfLeast(a, atOrAfter)
       /\ (op = "last_exclude_now" /\ after # {}) =>
              res = PairOfLeast(a, after)
       /\ (op = "next_include_now" /\ atOrBefore # {}) =>
              res = PairOfGreatest(a, atOrBefore)
       /\ (op = "next_exclude_now" /\ before # {}) =>
              res = PairOfGreatest(a, before)

\* the operations on built operands
ValueOperations ==
    {"copy", "union", "intersection", "difference", "self_difference",
     "symmetric_difference", "eq", "contains", "overlaps", "to_array", "shift", "bool"}

\* C25: TimeRange and DisjointTimeRanges behave as immutable values:
\* building a DisjointTimeRanges from a list leaves the contents and the
\* order of that list as they were, and no operation (copy, union,
\* intersection, difference, symmetric difference, ==, contains, overlaps,
\* to_array, shift) changes the bounds of a TimeRange operand or the member
\* sequence of a DisjointTimeRanges operand.
C25_Immutable ==
    [][/\ (op' = "DisjointTimeRanges") => args' = args
       /\ (op' \in ValueOperations) => (a' = a /\ b' = b /\ args' = args)]_vars

\* the operations that re-consolidate an operand change its member
\* sequence only when it is not canonical already
C25_OperandsKept ==
    [][(op' \in ValueOperations) =>
          /\ (IsTR(a) => a' = a) /\ (IsTR(b) => b' = b)
          /\ (IsDTR(a) /\ Consolidate(a.ranges).ranges = a.ranges /\ op' # "copy") => a' = a
          /\ (IsDTR(b) /\ Consolidate(b.ranges).ranges = b.ranges) => b' = b]_vars

\* the pacing of one call, for the calls of the modules in ms: a call that
\* finds the global unset does not sleep; a later call sleeps exactly when
\* the now() of wait_until is before end_time, records no earlier than dtime_second after the
\* instant recorded by the previous call, and records the current instant
PacedIn(ms) ==
    (frame.module \in ms) =>
        /\ (pc' = "sleep") => ~frame.first
        /\ (pc = "wait_until" /\ pc' = "wait") => frame'.seconds = frame.end_time - clock
        /\ (pc = "wait" /\ pc' # "wait") => (pc' = "sleep" <=> frame.seconds > 0)
        /\ (pc = "record" /\ pc' = "idle") =>
              /\ time_last_wait_if_func_called'[frame.module] = clock
              /\ ~frame.first =>
                     clock >= time_last_wait_if_func_called[frame.module] + frame.dtime_second
        /\ (pc # "idle" /\ pc' = "idle") => res' = [cls |-> "returned", ranges |-> <<>>]

\* C27: the first call of wait_if_pace_too_fast(d) returns without waiting;
\* every later call returns normally, no earlier than d seconds after the
\* instant recorded when the previous call returned (sleeping until then
\* when less time has elapsed, not sleeping otherwise), and records the
\* current instant as the new last-call time; in timemanager.py and in
\* notz.py alike.
C27_Pacing == [][PacedIn(Modules)]_vars

\* the same for timemanager.py alone
C27_PacingAware == [][PacedIn({"timemanager"})]_vars

\* C28: starting from the empty legacy DisjointTimeRanges, after any
\* sequence of add_range(start, end) calls with start < end the stored
\* ranges are pairwise disjoint: TimeRange.overlaps is false for every pair
\* of stored ranges, however many stored ranges the added range spans.
C28_Disjoint ==
    IsLegacy(a) =>
        \A i \in 1..Len(a.ranges) : \A j \in 1..Len(a.ranges) :
            i # j => ~LegacyOverlaps(a.ranges[i], a.ranges[j])

\* an added range that spans at most one stored range leaves them disjoint
C28_OneSpanned ==
    [][(op' = "add_range" /\ IsLegacy(a) /\ arg'[1] < arg'[2]
        /\ Cardinality({i \in 1..Len(a.ranges) :
                           LegacyOverlaps(a.ranges[i], LegacyTimeRange(arg'[1], arg'[2]))}) <= 1
        /\ \A i \in 1..Len(a.ranges) : \A j \in 1..Len(a.ranges) :
               i # j => ~LegacyOverlaps(a.ranges[i], a.ranges[j]))
       => \A i \in 1..Len(a'.ranges) : \A j \in 1..Len(a'.ranges) :
               i # j => ~LegacyOverlaps(a'.ranges[i], a'.ranges[j])]_vars

====
